---------------------------- MODULE Spec2Model ----------------------------
(***************************************************************************)
(* Market snapshot engine of na-hiro/github_actions_test.                  *)
(*                                                                         *)
(* Two variants of the same engine live in the repository:                 *)
(*   agent_app.py   - fixed symbol registry, fetch without error handling  *)
(*   slack_agent.py - registry loaded by load_symbols, defensive fetch     *)
(*                                                                         *)
(* Modelling conventions                                                   *)
(*  - A Python dict is a sequence of <<key, value>> pairs in insertion     *)
(*    order; assigning to an existing key keeps its position.              *)
(*  - A Date text is the sequence of its digits; Python compares strings   *)
(*    lexicographically and so does LexLess.                               *)
(*  - A Close text is a string; float() is the table FloatOf, defined on   *)
(*    the decimal texts only (float raises ValueError on the others).      *)
(*  - change_pct is the exact rational change / prev_close * 100 in lowest *)
(*    terms with a positive denominator.  IEEE rounding is monotone and    *)
(*    sign preserving, so the order and the sign of two change_pct values  *)
(*    are those of the rationals (a strict order may round to a tie).      *)
(*  - A rendered line is a record holding the values the f-string formats; *)
(*    the two-decimal rounding of the text is not modelled.                *)
(***************************************************************************)
EXTENDS Integers, Sequences, FiniteSets, TLC

VARIABLES
    variant,      \* which source file runs: "agent_app" or "slack_agent"
    pc,           \* position of the running function
    \* ---- one call of fetch_from_stooq
    attempts,     \* number of requests.get calls made by the call
    response,     \* what the provider answered to the last request
    result,       \* what the call returned (or raised)
    \* ---- load_symbols
    cfg_exists,   \* tickers.csv exists
    rows_read,    \* the tickers.csv rows read so far, as [row, accepted]
    index_symbols, stock_symbols, gold_symbols,   \* the dicts being filled
    \* ---- build_market_snapshot_text
    registry,     \* INDEX_SYMBOLS, STOCK_SYMBOLS, GOLD_SYMBOLS of the module
    idx,          \* position in the group being iterated
    fetch_log,    \* every fetch made so far: [group, pos, tag]
    index_lines,  \* lines of the index section
    results,      \* build_stock_rankings: the successful Tracked entries
    ranking,      \* the Tracked section, once built
    gold_lines,   \* lines of the gold symbols
    snapshot      \* the parts joined by the final "\n\n".join(parts)

vars == <<variant, pc, attempts, response, result, cfg_exists, rows_read,
          index_symbols, stock_symbols, gold_symbols, registry, idx,
          fetch_log, index_lines, results, ranking, gold_lines, snapshot>>

fetch_vars == <<attempts, response, result>>
load_vars  == <<cfg_exists, rows_read, index_symbols, stock_symbols, gold_symbols>>
snap_vars  == <<registry, idx, fetch_log, index_lines, results, ranking,
                gold_lines, snapshot>>

Variants == {"agent_app", "slack_agent"}

(***************************************************************************)
(* Bounds of the model.                                                    *)
(***************************************************************************)
\* rows of one provider response body
MaxRows == 3
\* distinct trading days a response can carry
NumDates == 3
\* rows of tickers.csv read by load_symbols
MaxCfgRows == 3
\* stock rows of the tickers.csv used for a snapshot run
MaxTracked == 4

(***************************************************************************)
(* Generic helpers.                                                        *)
(***************************************************************************)
None == "<None>"

Abs(n) == IF n < 0 THEN -n ELSE n

Min(a, b) == IF a < b THEN a ELSE b

RECURSIVE GCD(_, _)
GCD(a, b) == IF b = 0 THEN a ELSE GCD(b, a % b)

SeqsUpTo(S, n) == UNION {[1..k -> S] : k \in 0..n}

\* Python's str < str on two digit texts
RECURSIVE LexLess(_, _)
LexLess(a, b) ==
    IF b = <<>> THEN FALSE
    ELSE IF a = <<>> THEN TRUE
    ELSE IF Head(a) # Head(b) THEN Head(a) < Head(b)
    ELSE LexLess(Tail(a), Tail(b))

\* s[-n:]
LastN(s, n) == SubSeq(s, Len(s) - Min(n, Len(s)) + 1, Len(s))

\* s[:n]
FirstN(s, n) == SubSeq(s, 1, Min(n, Len(s)))

\* Python's sort is stable: an element goes after every element that is not
\* greater.  less[<<i, j>>] tells whether the key of s[i] is below that of s[j];
\* InsertStable and SortedOrder work on the positions of s.
RECURSIVE InsertStable(_, _, _)
InsertStable(order, x, less) ==
    IF order = <<>> THEN <<x>>
    ELSE IF less[<<x, Head(order)>>] THEN <<x>> \o order
    ELSE <<Head(order)>> \o InsertStable(Tail(order), x, less)

RECURSIVE SortedOrder(_, _)
SortedOrder(k, less) ==
    IF k = 0 THEN <<>> ELSE InsertStable(SortedOrder(k - 1, less), k, less)

StableSort(s, less) ==
    LET order == SortedOrder(Len(s), less)
    IN  [i \in 1..Len(s) |-> s[order[i]]]

Pairs(s) == (1..Len(s)) \X (1..Len(s))

(***************************************************************************)
(* Rationals for change_pct.                                               *)
(***************************************************************************)
Rat(n, d) ==
    LET s == IF d < 0 THEN -1 ELSE 1
        g == GCD(Abs(n), Abs(d))
    IN  [num |-> (s * n) \div g, den |-> (s * d) \div g]

RatZero == [num |-> 0, den |-> 1]

RatLess(a, b) == a.num * b.den < b.num * a.den

RatSign(a) == IF a.num > 0 THEN 1 ELSE IF a.num < 0 THEN -1 ELSE 0

(***************************************************************************)
(* The provider: what one GET can answer.                                  *)
(***************************************************************************)
\* the Date text of day d, two digits wide
DateText(d) == <<d \div 10, d % 10>>

Dates == {DateText(d) : d \in 1..NumDates}

\* a Close cell: missing (a short row), empty, zero in two spellings, not a
\* number, and two prices
CloseTexts == {None, "", "0", "0.0", "x", "100", "110"}

\* float(text): the decimal texts and their values
FloatTable == [t \in {"0", "0.0", "0.00", "100", "110"} |->
                  CASE t = "100" -> 100 [] t = "110" -> 110 [] OTHER -> 0]

IsFloat(t) == t \in DOMAIN FloatTable

FloatOf(t) == FloatTable[t]

\* csv.DictReader rows of a body with the columns Date and Close
DatedRows == [Date : Dates, Close : CloseTexts]

\* rows of a body whose header has no Date column
UndatedRows == [Close : CloseTexts]

Bodies == SeqsUpTo(DatedRows, MaxRows) \cup SeqsUpTo(UndatedRows, MaxRows)

Responses ==
    {[status |-> "transport_error", body |-> <<>>],
     [status |-> "http_error", body |-> <<>>]}
    \cup {[status |-> "ok", body |-> b] : b \in Bodies}

NoResponse == [status |-> "none", body |-> <<>>]

(***************************************************************************)
(* Outcomes of fetch_from_stooq.                                           *)
(***************************************************************************)
ReturnNone == [tag |-> "none"]

Raise(exc) == [tag |-> "raise", exc |-> exc]

NoResult == [tag |-> "pending"]

SortByDate(rows) ==
    StableSort(rows, [p \in Pairs(rows) |->
                         LexLess(rows[p[1]].Date, rows[p[2]].Date)])

HasDate(rows) == \A i \in 1..Len(rows) : "Date" \in DOMAIN rows[i]

\* agent_app.py: requests.get / raise_for_status outside any try
agent_app_request_failed == Raise("RequestException")

\* slack_agent.py: except Exception -> return None
slack_agent_request_failed == ReturnNone

\* agent_app.py, from the DictReader to the return
agent_app_parse(body) ==
    LET rows == SelectSeq(body, LAMBDA x : x.Close \notin {None, ""})
    IN  IF Len(rows) < 2 THEN ReturnNone
        ELSE IF ~HasDate(rows) THEN Raise("KeyError")
        ELSE
            LET sorted == SortByDate(rows)
                last   == sorted[Len(sorted)]
                prev   == sorted[Len(sorted) - 1]
            IN  IF ~IsFloat(last.Close) \/ ~IsFloat(prev.Close)
                THEN Raise("ValueError")
                ELSE
                    LET price  == FloatOf(last.Close)
                        prev_c == FloatOf(prev.Close)
                        chg    == price - prev_c
                        pct    == IF prev_c # 0 THEN Rat(chg * 100, prev_c)
                                  ELSE RatZero
                    IN  [tag |-> "quote", price |-> price, change |-> chg,
                         change_pct |-> pct, date |-> last.Date]

\* slack_agent.py, from resp.text to the return
slack_agent_parse(body) ==
    LET lines == 1 + Len(body)
        rows  == SelectSeq(body,
                     LAMBDA row : row.Close \notin {"", "0", "0.00", None})
    IN  IF lines <= 1 THEN ReturnNone
        ELSE IF Len(rows) < 2 THEN ReturnNone
        ELSE IF ~HasDate(rows) THEN Raise("KeyError")
        ELSE
            LET sorted == SortByDate(rows)
                latest == sorted[Len(sorted)]
                prev   == sorted[Len(sorted) - 1]
            IN  IF ~IsFloat(latest.Close) \/ ~IsFloat(prev.Close)
                THEN ReturnNone
                ELSE
                    LET price      == FloatOf(latest.Close)
                        prev_close == FloatOf(prev.Close)
                        change     == price - prev_close
                    IN  IF prev_close = 0 THEN ReturnNone
                        ELSE [tag |-> "quote", price |-> price,
                              prev_close |-> prev_close, change |-> change,
                              change_pct |-> Rat(change * 100, prev_close)]

request_failed(v) ==
    IF v = "agent_app" THEN agent_app_request_failed
    ELSE slack_agent_request_failed

parse(v, body) ==
    IF v = "agent_app" THEN agent_app_parse(body) ELSE slack_agent_parse(body)

\* one whole call of fetch_from_stooq against one provider answer
fetch_from_stooq(v, resp) ==
    IF resp.status # "ok" THEN request_failed(v) ELSE parse(v, resp.body)

(***************************************************************************)
(* One call of fetch_from_stooq, request by request.                       *)
(***************************************************************************)
Idle ==
    /\ cfg_exists = FALSE /\ rows_read = [n |-> 0, index_rows |-> 0, skipped |-> 0]
    /\ index_symbols = <<>> /\ stock_symbols = <<>> /\ gold_symbols = <<>>
    /\ registry = [index |-> <<>>, stock |-> <<>>, gold |-> <<>>]
    /\ idx = 0 /\ fetch_log = <<>> /\ index_lines = <<>> /\ results = <<>>
    /\ ranking = <<>> /\ gold_lines = <<>> /\ snapshot = <<>>

FetchInit ==
    /\ variant \in Variants
    /\ pc = "get"
    /\ attempts = 0 /\ response = NoResponse /\ result = NoResult
    /\ Idle

\* requests.get(url, timeout=10); raise_for_status()
HttpGet ==
    /\ pc = "get"
    /\ \E resp \in Responses :
          /\ attempts' = attempts + 1
          /\ response' = resp
          /\ IF resp.status # "ok"
             THEN /\ result' = request_failed(variant)
                  /\ pc' = "returned"
             ELSE /\ result' = result
                  /\ pc' = "parse"
    /\ UNCHANGED <<variant, load_vars, snap_vars>>

\* the rest of the function, on the body received
ParseBody ==
    /\ pc = "parse"
    /\ result' = parse(variant, response.body)
    /\ pc' = "returned"
    /\ UNCHANGED <<variant, attempts, response, load_vars, snap_vars>>

FetchNext == HttpGet \/ ParseBody

SpecFetch == FetchInit /\ [][FetchNext]_vars

(***************************************************************************)
(* Symbol registry.  Labels are written in ASCII.                          *)
(***************************************************************************)
\* d[k] = v on a dict
DictSet(d, k, v) ==
    IF \E i \in 1..Len(d) : d[i][1] = k
    THEN [i \in 1..Len(d) |-> IF d[i][1] = k THEN <<k, v>> ELSE d[i]]
    ELSE Append(d, <<k, v>>)

Keys(d) == [i \in 1..Len(d) |-> d[i][1]]

\* agent_app.py: the module-level registry
AGENT_INDEX_SYMBOLS == << <<"^NKX", "Nikkei225">>, <<"^TPX", "TOPIX">> >>

AGENT_STOCK_SYMBOLS ==
    << <<"7203.JP", "Toyota">>, <<"6758.JP", "SonyG">>, <<"9984.JP", "SoftBankG">> >>

AGENT_GOLD_SYMBOLS == << <<"XAUUSD", "Gold(USD)">>, <<"XAUJPY", "Gold(JPY)">> >>

\* slack_agent.py: the fallback when tickers.csv does not exist
FALLBACK_INDEX == << <<"^NKX", "Nikkei225">>, <<"^TPX", "TOPIX">> >>

FALLBACK_STOCKS ==
    << <<"7203.JP", "Toyota">>, <<"6758.JP", "SonyGroup">>,
       <<"9984.JP", "SoftBankG">>, <<"7974.JP", "Nintendo">>,
       <<"8035.JP", "TokyoElectron">>, <<"8306.JP", "MUFG">>,
       <<"8316.JP", "SMFG">>, <<"6861.JP", "Keyence">> >>

\* cells of a tickers.csv row: missing, blank, padded and mixed case, plain
TypeTexts == {None, " ", "index", " Index ", "stock", "gold", "bond"}

SymbolTexts == {"", "^NKX", " 7203.JP "}

LabelTexts == {None, "Nikkei225", "Toyota"}

CfgRows == [type : TypeTexts, symbol : SymbolTexts, label : LabelTexts]

\* (cell or "")
OrEmpty(cell) == IF cell \in {None, ""} THEN "" ELSE cell

\* str.strip()
Strip(t) ==
    CASE t = " " -> ""
      [] t = " Index " -> "Index"
      [] t = " 7203.JP " -> "7203.JP"
      [] OTHER -> t

\* str.lower()
Lower(t) == IF t = "Index" THEN "index" ELSE t

EmptyDicts == [index |-> <<>>, stock |-> <<>>, gold |-> <<>>]

\* the fallback branch: if not cfg.exists()
load_fallback == [index |-> FALLBACK_INDEX, stock |-> FALLBACK_STOCKS, gold |-> <<>>]

\* the body of "for row in reader"
load_row(d, row) ==
    LET t     == Lower(Strip(OrEmpty(row.type)))
        sym   == Strip(OrEmpty(row.symbol))
        label == Strip(OrEmpty(row.label))
    IN  IF t = "" \/ sym = "" \/ label = "" THEN d
        ELSE IF t = "index" THEN [d EXCEPT !.index = DictSet(@, sym, label)]
        ELSE IF t = "stock" THEN [d EXCEPT !.stock = DictSet(@, sym, label)]
        ELSE IF t = "gold" THEN [d EXCEPT !.gold = DictSet(@, sym, label)]
        ELSE d

\* mutant of load_safety_net: the default pair never added
load_safety_net_Missing(d) == d

\* after the loop: if not index_symbols, add the default pair
load_safety_net(d) ==
    IF d.index = <<>>
    THEN [d EXCEPT !.index = DictSet(DictSet(@, "^NKX", "Nikkei225"), "^TPX", "TOPIX")]
    ELSE d

RECURSIVE load_rows(_, _)
load_rows(d, rows) ==
    IF rows = <<>> THEN d ELSE load_rows(load_row(d, Head(rows)), Tail(rows))

\* load_symbols() on a configuration [exists, rows]
load_symbols(cfg) ==
    IF ~cfg.exists THEN load_fallback
    ELSE load_safety_net(load_rows(EmptyDicts, cfg.rows))

Dicts == [index |-> index_symbols, stock |-> stock_symbols, gold |-> gold_symbols]

SetDicts(d) ==
    /\ index_symbols' = d.index
    /\ stock_symbols' = d.stock
    /\ gold_symbols' = d.gold

\* a row the loop accepts: all three cells non-empty after trimming
RowAccepted(row) ==
    /\ Strip(OrEmpty(row.type)) # ""
    /\ Strip(OrEmpty(row.symbol)) # ""
    /\ Strip(OrEmpty(row.label)) # ""

RowType(row) == Lower(Strip(OrEmpty(row.type)))

NoRowsRead == [n |-> 0, index_rows |-> 0, skipped |-> 0]

LoadInit ==
    /\ variant = "slack_agent"
    /\ pc = "load"
    /\ cfg_exists \in BOOLEAN
    /\ rows_read = NoRowsRead
    /\ index_symbols = <<>> /\ stock_symbols = <<>> /\ gold_symbols = <<>>
    /\ attempts = 0 /\ response = NoResponse /\ result = NoResult
    /\ registry = EmptyDicts
    /\ idx = 0 /\ fetch_log = <<>> /\ index_lines = <<>> /\ results = <<>>
    /\ ranking = <<>> /\ gold_lines = <<>> /\ snapshot = <<>>

\* if not cfg.exists(): return the fallback
ReturnFallback ==
    /\ pc = "load"
    /\ ~cfg_exists
    /\ SetDicts(load_fallback)
    /\ pc' = "loaded"
    /\ UNCHANGED <<variant, cfg_exists, rows_read, fetch_vars, snap_vars>>

\* one iteration of "for row in reader"
ReadRow ==
    /\ pc = "load"
    /\ cfg_exists
    /\ rows_read.n < MaxCfgRows
    /\ \E row \in CfgRows :
          /\ SetDicts(load_row(Dicts, row))
          /\ rows_read' =
                [n |-> rows_read.n + 1,
                 index_rows |-> rows_read.index_rows +
                     (IF RowAccepted(row) /\ RowType(row) = "index" THEN 1 ELSE 0),
                 skipped |-> rows_read.skipped +
                     (IF RowAccepted(row)
                         /\ RowType(row) \in {"index", "stock", "gold"}
                      THEN 0 ELSE 1)]
    /\ UNCHANGED <<variant, pc, cfg_exists, fetch_vars, snap_vars>>

\* the reader is exhausted: the safety net, then return
EndOfFile ==
    /\ pc = "load"
    /\ cfg_exists
    /\ SetDicts(load_safety_net(Dicts))
    /\ pc' = "loaded"
    /\ UNCHANGED <<variant, cfg_exists, rows_read, fetch_vars, snap_vars>>

LoadNext == ReturnFallback \/ ReadRow \/ EndOfFile

SpecLoad == LoadInit /\ [][LoadNext]_vars

(***************************************************************************)
(* build_market_snapshot_text.                                             *)
(***************************************************************************)
\* "- {label}: {price:.2f} ({sign}{change:.2f}, {sign}{change_pct:.2f}%)"
QuoteLine(label, q) ==
    [kind |-> "quote", label |-> label, price |-> q.price,
     sign |-> IF q.change >= 0 THEN "+" ELSE "",
     change |-> q.change, change_pct |-> q.change_pct]

\* "- {label}: (data acquisition failed)"
UnavailableLine(label) == [kind |-> "unavailable", label |-> label]

\* the line of one symbol in the index and gold sections: if q / else
SymbolLine(label, q) ==
    IF q.tag = "quote" THEN QuoteLine(label, q) ELSE UnavailableLine(label)

HeadLine == [kind |-> "head"]

IndexHeader == [kind |-> "index_header"]

GoldHeader == [kind |-> "gold_header"]

GainersHeader == [kind |-> "gainers_header"]

LosersHeader == [kind |-> "losers_header"]

AllFailedLine == [kind |-> "all_failed"]

\* "- {name} ({sign}{change_pct:.2f}%)"
RankLine(e) ==
    [kind |-> "rank", name |-> e.name,
     sign |-> IF e.change_pct.num >= 0 THEN "+" ELSE "",
     change_pct |-> e.change_pct]

SentimentLine(t) ==
    [kind |-> "sentiment", up |-> t.up, down |-> t.down, flat |-> t.flat]

\* the entry appended to results for a quote (agent_app keeps name and pct only)
RankedEntry(symbol, name, q) ==
    [symbol |-> symbol, name |-> name, change_pct |-> q.change_pct]

\* sorted(results, key=change_pct, reverse=True)
SortDescending(entries) ==
    StableSort(entries, [p \in Pairs(entries) |->
        RatLess(entries[p[2]].change_pct, entries[p[1]].change_pct)])

\* sorted(entries, key=change_pct)
SortAscending(entries) ==
    StableSort(entries, [p \in Pairs(entries) |->
        RatLess(entries[p[1]].change_pct, entries[p[2]].change_pct)])

\* gainers = sorted_by[:3]
Gainers(entries) == FirstN(SortDescending(entries), 3)

\* mutant of Losers: the last three taken without sorting them again
Losers_NotResorted(entries) == LastN(SortDescending(entries), 3)

\* losers = sorted(sorted_by[-3:], key=change_pct)
Losers(entries) == SortAscending(LastN(SortDescending(entries), 3))

\* mutant of Sentiment: an unchanged price counted as a rise
Sentiment_FlatCountedUp(entries) ==
    LET up   == Len(SelectSeq(entries, LAMBDA r : r.change_pct.num >= 0))
        down == Len(SelectSeq(entries, LAMBDA r : r.change_pct.num < 0))
    IN  [up |-> up, down |-> down, flat |-> Len(entries) - up - down]

\* up, down and flat = len(results) - up - down
Sentiment(entries) ==
    LET up   == Len(SelectSeq(entries, LAMBDA r : r.change_pct.num > 0))
        down == Len(SelectSeq(entries, LAMBDA r : r.change_pct.num < 0))
    IN  [up |-> up, down |-> down, flat |-> Len(entries) - up - down]

\* for e in entries: lines.append(f"- {fmt(e)}")
RankLines(entries) == [i \in 1..Len(entries) |-> RankLine(entries[i])]

\* build_stock_rankings / stock_rankings, after the fetch loop
build_stock_rankings(entries) ==
    IF entries = <<>> THEN <<AllFailedLine>>
    ELSE <<GainersHeader>> \o RankLines(Gainers(entries))
         \o <<LosersHeader>> \o RankLines(Losers(entries))
         \o <<SentimentLine(Sentiment(entries))>>

\* mutant of gold_parts: the section appended without testing for emptiness
gold_parts_Unguarded(v, gold, lines) ==
    IF v = "agent_app" THEN << <<GoldHeader>>, lines >>
    ELSE << <<GoldHeader>> \o lines >>

\* what the gold section contributes to parts, given the lines of its symbols.
\* agent_app: if GOLD_SYMBOLS: parts += [header, fmt_lines(GOLD_SYMBOLS)]
\* slack_agent: build_gold_section returns "" or header + lines, one part,
\*              appended if non-empty
gold_parts(v, gold, lines) ==
    IF v = "agent_app"
    THEN (IF gold # <<>> THEN << <<GoldHeader>>, lines >> ELSE <<>>)
    ELSE LET gold_section == IF gold = <<>> THEN <<>> ELSE <<GoldHeader>> \o lines
         IN  IF gold_section # <<>> THEN <<gold_section>> ELSE <<>>

\* parts, in the order "\n\n".join(parts) writes them
build_parts(v, reg, idx_lines, rank_lines, g_lines) ==
    << <<HeadLine>>, <<IndexHeader>>, idx_lines, rank_lines >>
    \o gold_parts(v, reg.gold, g_lines)

\* the answers the provider gives during a snapshot run
SnapResponses ==
    {[status |-> "transport_error", body |-> <<>>],
     [status |-> "http_error", body |-> <<>>],
     [status |-> "ok", body |-> <<>>],
     [status |-> "ok", body |-> <<[Close |-> "100"], [Close |-> "110"]>>],
     [status |-> "ok", body |-> <<[Date |-> DateText(1), Close |-> "100"],
                                  [Date |-> DateText(2), Close |-> "x"]>>],
     [status |-> "ok", body |-> <<[Date |-> DateText(2), Close |-> "110"],
                                  [Date |-> DateText(1), Close |-> "100"]>>],
     [status |-> "ok", body |-> <<[Date |-> DateText(1), Close |-> "110"],
                                  [Date |-> DateText(2), Close |-> "100"]>>],
     [status |-> "ok", body |-> <<[Date |-> DateText(1), Close |-> "100"],
                                  [Date |-> DateText(2), Close |-> "100"]>>]}

\* the tickers.csv files of the snapshot runs: index, stock and gold rows
SnapConfig(n_index, n_stock, n_gold) ==
    [exists |-> TRUE,
     rows |->
        [i \in 1..n_index |->
            [type |-> "index", symbol |-> "^NKX", label |-> "Nikkei225"]]
        \o [i \in 1..n_stock |->
            [type |-> "stock", symbol |-> FALLBACK_STOCKS[i][1],
             label |-> FALLBACK_STOCKS[i][2]]]
        \o [i \in 1..n_gold |->
            [type |-> "gold", symbol |-> "XAUUSD", label |-> "Gold(USD)"]]]

SnapConfigs ==
    {SnapConfig(a, b, c) : a \in 0..1, b \in 0..MaxTracked, c \in 0..1}

\* INDEX_SYMBOLS, STOCK_SYMBOLS, GOLD_SYMBOLS as the module sets them at import
Registries(v) ==
    IF v = "agent_app"
    THEN {[index |-> AGENT_INDEX_SYMBOLS, stock |-> AGENT_STOCK_SYMBOLS,
           gold |-> AGENT_GOLD_SYMBOLS]}
    ELSE {load_symbols(c) : c \in SnapConfigs}

\* where the run continues: the next non-empty loop, or the code after it
StartGold(reg) == IF reg.gold # <<>> THEN <<"gold", 1>> ELSE <<"join", 0>>

StartStock(reg) == IF reg.stock # <<>> THEN <<"stock", 1>> ELSE <<"rank", 0>>

StartIndex(reg) == IF reg.index # <<>> THEN <<"index", 1>> ELSE StartStock(reg)

\* after iteration i of the loop over group g
AfterFetch(reg, g, i) ==
    IF i < Len(reg[g]) THEN <<g, i + 1>>
    ELSE IF g = "index" THEN StartStock(reg)
    ELSE IF g = "stock" THEN <<"rank", 0>>
    ELSE <<"join", 0>>

Goto(pos) == pc' = pos[1] /\ idx' = pos[2]

Logged(g, i, q) ==
    [group |-> g, pos |-> i, tag |-> q.tag,
     exc |-> IF q.tag = "raise" THEN q.exc ELSE None]

SnapInit ==
    /\ variant \in Variants
    /\ registry \in Registries(variant)
    /\ pc = StartIndex(registry)[1]
    /\ idx = StartIndex(registry)[2]
    /\ fetch_log = <<>> /\ index_lines = <<>> /\ results = <<>>
    /\ ranking = <<>> /\ gold_lines = <<>> /\ snapshot = <<>>
    /\ attempts = 0 /\ response = NoResponse /\ result = NoResult
    /\ cfg_exists = FALSE /\ rows_read = NoRowsRead
    /\ index_symbols = <<>> /\ stock_symbols = <<>> /\ gold_symbols = <<>>

\* one iteration of the loop over INDEX_SYMBOLS
FetchIndex ==
    /\ pc = "index"
    /\ \E resp \in SnapResponses :
        LET q == fetch_from_stooq(variant, resp)
        IN  /\ fetch_log' = Append(fetch_log, Logged("index", idx, q))
            /\ IF q.tag = "raise"
               THEN /\ pc' = "raised"
                    /\ UNCHANGED <<idx, index_lines>>
               ELSE /\ index_lines' =
                         Append(index_lines, SymbolLine(registry.index[idx][2], q))
                    /\ Goto(AfterFetch(registry, "index", idx))
    /\ UNCHANGED <<variant, registry, results, ranking, gold_lines, snapshot,
                   fetch_vars, load_vars>>

\* one iteration of the loop over STOCK_SYMBOLS
FetchStock ==
    /\ pc = "stock"
    /\ \E resp \in SnapResponses :
        LET q == fetch_from_stooq(variant, resp)
        IN  /\ fetch_log' = Append(fetch_log, Logged("stock", idx, q))
            /\ IF q.tag = "raise"
               THEN /\ pc' = "raised"
                    /\ UNCHANGED <<idx, results>>
               ELSE /\ results' =
                         IF q.tag = "quote"
                         THEN Append(results,
                                  RankedEntry(registry.stock[idx][1],
                                              registry.stock[idx][2], q))
                         ELSE results
                    /\ Goto(AfterFetch(registry, "stock", idx))
    /\ UNCHANGED <<variant, registry, index_lines, ranking, gold_lines, snapshot,
                   fetch_vars, load_vars>>

\* the rest of build_stock_rankings, after its loop
RankStocks ==
    /\ pc = "rank"
    /\ ranking' = build_stock_rankings(results)
    /\ Goto(StartGold(registry))
    /\ UNCHANGED <<variant, registry, fetch_log, index_lines, results, gold_lines,
                   snapshot, fetch_vars, load_vars>>

\* one iteration of the loop over GOLD_SYMBOLS
FetchGold ==
    /\ pc = "gold"
    /\ \E resp \in SnapResponses :
        LET q == fetch_from_stooq(variant, resp)
        IN  /\ fetch_log' = Append(fetch_log, Logged("gold", idx, q))
            /\ IF q.tag = "raise"
               THEN /\ pc' = "raised"
                    /\ UNCHANGED <<idx, gold_lines>>
               ELSE /\ gold_lines' =
                         Append(gold_lines, SymbolLine(registry.gold[idx][2], q))
                    /\ Goto(AfterFetch(registry, "gold", idx))
    /\ UNCHANGED <<variant, registry, index_lines, results, ranking, snapshot,
                   fetch_vars, load_vars>>

\* parts = [...]; return "\n\n".join(parts)
JoinParts ==
    /\ pc = "join"
    /\ snapshot' = build_parts(variant, registry, index_lines, ranking, gold_lines)
    /\ pc' = "done"
    /\ UNCHANGED <<variant, registry, idx, fetch_log, index_lines, results,
                   ranking, gold_lines, fetch_vars, load_vars>>

SnapNext == FetchIndex \/ FetchStock \/ RankStocks \/ FetchGold \/ JoinParts

SpecSnap == SnapInit /\ [][SnapNext]_vars

(***************************************************************************)
(* Vocabulary of the claims about one fetch.                               *)
(***************************************************************************)
\* the rows with a present, non-empty Close
RowsWithClose(body) == SelectSeq(body, LAMBDA r : r.Close \notin {None, ""})

\* every row carries a Date and no two rows share one: "most recent" is defined
WellDated(rows) ==
    /\ HasDate(rows)
    /\ \A i, j \in 1..Len(rows) : rows[i].Date = rows[j].Date => i = j

\* the row with the greatest Date among the rows at the positions in I
LatestAt(rows, I) ==
    CHOOSE i \in I : \A j \in I : ~LexLess(rows[i].Date, rows[j].Date)

MostRecent(rows) == rows[LatestAt(rows, 1..Len(rows))]

SecondMostRecent(rows) ==
    rows[LatestAt(rows, (1..Len(rows)) \ {LatestAt(rows, 1..Len(rows))})]

RequestFailed == response.status \in {"transport_error", "http_error"}

\* the call returned on a body in which the two most recent closes are defined
ReturnedOnSeries ==
    /\ pc = "returned"
    /\ response.status = "ok"
    /\ Len(RowsWithClose(response.body)) >= 2
    /\ WellDated(RowsWithClose(response.body))

\* previous close of a returned quote (agent_app does not return it)
PrevCloseOf(q) ==
    IF "prev_close" \in DOMAIN q THEN q.prev_close ELSE q.price - q.change

\* C2: a call whose request failed (transport error or HTTP error status)
\* returns a Failure only after the third request (the first and two retries),
\* and no call makes more than three requests.
C2_RetriesThenFailure ==
    /\ attempts <= 3
    /\ (pc = "returned" /\ RequestFailed /\ result.tag = "none") =>
           attempts = 3

\* C3: when the earlier of the two most recent rows with a non-empty Close
\* has a close equal to zero, the call returns a Failure.
C3_ZeroPrevCloseFails ==
    (/\ ReturnedOnSeries
     /\ IsFloat(SecondMostRecent(RowsWithClose(response.body)).Close)
     /\ FloatOf(SecondMostRecent(RowsWithClose(response.body)).Close) = 0)
    => result.tag = "none"

\* C4: on a received body with fewer than two rows with a non-empty Close, or
\* with one of the two most recent closes not a number, the call returns a
\* Failure after its single request: it neither raises nor retries.
C4_BadBodyFailsAtOnce ==
    (/\ pc = "returned"
     /\ response.status = "ok"
     /\ \/ Len(RowsWithClose(response.body)) < 2
        \/ /\ WellDated(RowsWithClose(response.body))
           /\ \/ ~IsFloat(MostRecent(RowsWithClose(response.body)).Close)
              \/ ~IsFloat(SecondMostRecent(RowsWithClose(response.body)).Close))
    => (result.tag = "none" /\ attempts = 1)

\* C5: a quote returned on a series with two or more rows with a non-empty
\* Close has price = the close of the most recent of them, previous close =
\* the close of the second most recent, change = their difference and
\* change_pct = change / previous close * 100.
C5_QuoteOfTwoMostRecent ==
    (ReturnedOnSeries /\ result.tag = "quote") =>
        LET rows == RowsWithClose(response.body)
            last == MostRecent(rows).Close
            prev == SecondMostRecent(rows).Close
        IN  /\ IsFloat(last) /\ IsFloat(prev)
            /\ FloatOf(prev) # 0
            /\ result.price = FloatOf(last)
            /\ PrevCloseOf(result) = FloatOf(prev)
            /\ result.change = FloatOf(last) - FloatOf(prev)
            /\ result.change_pct =
                   Rat((FloatOf(last) - FloatOf(prev)) * 100, FloatOf(prev))

(***************************************************************************)
(* Vocabulary of the claims about a snapshot run.                          *)
(***************************************************************************)
RECURSIVE Flatten(_)
Flatten(parts) ==
    IF parts = <<>> THEN <<>> ELSE Head(parts) \o Flatten(Tail(parts))

\* the logged fetches of group g, in the order they were made
FetchesOf(g) == SelectSeq(fetch_log, LAMBDA f : f.group = g)

\* the lines a section must hold: one per symbol of the group, in registry
\* order, a quote line where the fetch gave a quote and the unavailable line
\* where it did not
GroupLinesOk(g, lines) ==
    /\ Len(lines) = Len(registry[g])
    /\ Len(FetchesOf(g)) = Len(registry[g])
    /\ \A i \in 1..Len(lines) :
          /\ lines[i].label = registry[g][i][2]
          /\ FetchesOf(g)[i].pos = i
          /\ IF FetchesOf(g)[i].tag = "quote"
             THEN lines[i].kind = "quote"
             ELSE lines[i] = [kind |-> "unavailable", label |-> registry[g][i][2]]

NoTrackedQuote == \A i \in 1..Len(fetch_log) :
    fetch_log[i].group = "stock" => fetch_log[i].tag # "quote"

TrackedQuotes == Len(SelectSeq(FetchesOf("stock"), LAMBDA f : f.tag = "quote"))

Ranked == pc \in {"gold", "join", "done"} /\ results # <<>>

\* the lines of the ranking between its headers
GainerLines == SubSeq(ranking, 2, 1 + Min(3, Len(results)))

LoserLines ==
    SubSeq(ranking, 3 + Min(3, Len(results)), 2 + 2 * Min(3, Len(results)))

NamesOf(lines) == {lines[i].name : i \in 1..Len(lines)}

PctOfName(name) ==
    (CHOOSE i \in 1..Len(results) : results[i].name = name)

\* C1: a snapshot run never ends in an exception, whatever the provider
\* answers, and each Index/Other symbol whose fetch gave no quote has its own
\* "data unavailable" line.
C1_SnapshotNeverRaises ==
    /\ pc # "raised"
    /\ pc = "done" => GroupLinesOk("index", index_lines)

\* C8: when a run ends and no Tracked fetch gave a quote (and no Index or
\* Other fetch raised), the snapshot is produced and its Tracked section is
\* exactly the all-failed sentinel.
C8_AllFailedSentinel ==
    (/\ pc \in {"done", "raised"}
     /\ registry.stock # <<>>
     /\ NoTrackedQuote
     /\ \A i \in 1..Len(fetch_log) :
            fetch_log[i].group # "stock" => fetch_log[i].tag # "raise")
    => /\ pc = "done"
       /\ ranking = <<[kind |-> "all_failed"]>>
       /\ Len(snapshot) >= 4
       /\ snapshot[1] = <<[kind |-> "head"]>>
       /\ snapshot[3] = index_lines
       /\ snapshot[4] = ranking

\* C6: the sentiment line counts every successful Tracked entry once: up is
\* the number of entries with change_pct > 0, down with change_pct < 0, flat
\* with change_pct = 0, and the three add up to the number of Tracked fetches
\* that gave a quote.
C6_SentimentTally ==
    Ranked =>
        LET t == ranking[Len(ranking)]
            N(sign) == Cardinality({i \in 1..Len(results) :
                                       RatSign(results[i].change_pct) = sign})
        IN  /\ t.kind = "sentiment"
            /\ t.up = N(1)
            /\ t.down = N(-1)
            /\ t.flat = N(0)
            /\ t.up + t.down + t.flat = TrackedQuotes

\* the [+5, -3, 0] shape of the claim, beside a failed Tracked symbol
C6_Witness ==
    /\ Ranked
    /\ ranking[Len(ranking)] = [kind |-> "sentiment", up |-> 1, down |-> 1, flat |-> 1]
    /\ \E i \in 1..Len(fetch_log) :
          fetch_log[i].group = "stock" /\ fetch_log[i].tag = "none"

\* C7: with n >= 1 successful Tracked entries, the gainers are min(3, n)
\* distinct entries, none with a lower change_pct than an entry left out,
\* listed in non-increasing order; the losers are min(3, n) distinct entries,
\* none with a higher change_pct than an entry left out, listed in
\* non-decreasing order; both are taken from the successful entries only and
\* hold all of them when n <= 3.
C7_GainersAndLosers ==
    Ranked =>
        LET n == Len(results)
            k == Min(3, n)
            G == GainerLines
            L == LoserLines
            All == {results[i].name : i \in 1..n}
            Pct(name) == results[PctOfName(name)].change_pct
        IN  /\ Len(ranking) = 3 + 2 * k
            /\ ranking[1] = [kind |-> "gainers_header"]
            /\ ranking[2 + k] = [kind |-> "losers_header"]
            /\ n = TrackedQuotes
            /\ \A i \in 1..k :
                  /\ G[i].kind = "rank" /\ L[i].kind = "rank"
                  /\ G[i].name \in All /\ L[i].name \in All
                  /\ G[i].change_pct = Pct(G[i].name)
                  /\ L[i].change_pct = Pct(L[i].name)
            /\ Cardinality(NamesOf(G)) = k
            /\ Cardinality(NamesOf(L)) = k
            /\ \A i \in 1..(k - 1) :
                  /\ ~RatLess(G[i].change_pct, G[i + 1].change_pct)
                  /\ ~RatLess(L[i + 1].change_pct, L[i].change_pct)
            /\ \A out \in All \ NamesOf(G) : \A i \in 1..k :
                  ~RatLess(G[i].change_pct, Pct(out))
            /\ \A out \in All \ NamesOf(L) : \A i \in 1..k :
                  ~RatLess(Pct(out), L[i].change_pct)
            /\ n <= 3 => (NamesOf(G) = All /\ NamesOf(L) = All)

\* four successes of differing change_pct: the two lists differ
C7_Witness ==
    /\ Ranked
    /\ Len(results) = 4
    /\ NamesOf(GainerLines) # NamesOf(LoserLines)
    /\ RatSign(GainerLines[1].change_pct) = 1
    /\ RatSign(LoserLines[1].change_pct) = -1

\* C9: a produced snapshot is the header line, the index header with one
\* line per index symbol in registry order, the Tracked section, and then,
\* if and only if the gold group is non-empty, the gold header with one line
\* per gold symbol in registry order; no header stands without lines.
C9_SnapshotLayout ==
    pc = "done" =>
        /\ registry.index # <<>>
        /\ GroupLinesOk("index", index_lines)
        /\ registry.gold # <<>> => GroupLinesOk("gold", gold_lines)
        /\ registry.gold = <<>> => gold_lines = <<>>
        /\ ranking[1].kind \in {"all_failed", "gainers_header"}
        /\ Flatten(snapshot) =
              <<[kind |-> "head"], [kind |-> "index_header"]>>
              \o index_lines
              \o ranking
              \o (IF registry.gold # <<>>
                  THEN <<[kind |-> "gold_header"]>> \o gold_lines
                  ELSE <<>>)

\* a snapshot with a gold section in which an index and a gold fetch failed
C9_Witness ==
    /\ pc = "done"
    /\ registry.gold # <<>>
    /\ index_lines[1].kind = "unavailable"
    /\ \E i \in 1..Len(fetch_log) :
          fetch_log[i].group = "gold" /\ fetch_log[i].tag = "none"
    /\ results # <<>>

(***************************************************************************)
(* Claims about load_symbols.                                              *)
(***************************************************************************)
\* C10: load_symbols returns for every configuration source: the Index group
\* it returns is never empty, it is the fallback pair whenever no valid
\* index row was accepted, and without a configuration file the Tracked
\* group is the fixed fallback set of eight symbols.
C10_RegistryNeverLacksIndex ==
    /\ pc \in {"load", "loaded"}
    /\ pc = "loaded" =>
          /\ index_symbols # <<>>
          /\ rows_read.index_rows = 0 =>
                index_symbols = << <<"^NKX", "Nikkei225">>, <<"^TPX", "TOPIX">> >>
          /\ ~cfg_exists =>
                /\ Len(stock_symbols) = 8
                /\ Keys(stock_symbols) =
                      <<"7203.JP", "6758.JP", "9984.JP", "7974.JP",
                        "8035.JP", "8306.JP", "8316.JP", "6861.JP">>
                /\ gold_symbols = <<>>

\* a file whose rows were partly skipped and held no valid index row
C10_Witness ==
    /\ pc = "loaded"
    /\ cfg_exists
    /\ rows_read.skipped > 0
    /\ rows_read.index_rows = 0
    /\ stock_symbols # <<>>
    /\ index_symbols = << <<"^NKX", "Nikkei225">>, <<"^TPX", "TOPIX">> >>

(***************************************************************************)
(* The two variants of fetch_from_stooq against each other.                *)
(***************************************************************************)
\* the other source file
OtherVariant(v) == IF v = "agent_app" THEN "slack_agent" ELSE "agent_app"

\* what a caller observes of an outcome: a raise, no quote, or the quote's
\* price, change and change_pct (the fields both variants return)
Observed(q) ==
    IF q.tag = "quote"
    THEN [tag |-> "quote", price |-> q.price, change |-> q.change,
          change_pct |-> q.change_pct]
    ELSE [tag |-> q.tag]

\* C11: when a call of one variant has ended, the other variant, given the
\* same provider answer, ends the same way: both raise, both return no quote,
\* or both return a quote with the same price, change and change_pct.
C11_VariantsEquivalent ==
    pc = "returned" =>
        Observed(result) =
            Observed(fetch_from_stooq(OtherVariant(variant), response))

=============================================================================
